---- MODULE Spec2Model ----
\* A model of funcho's contract -> fetch handler pipeline (src/src/router.ts,
\* src/src/handler.ts, the response descriptor helpers of src/src/index.ts and
\* createTypedResponse/isTypedResponse of the contract module).
\*
\* Strings that the code takes apart (path patterns, request pathnames) are
\* sequences of one-character strings; strings the code only builds by
\* concatenation (messages, header values) are sequences of their pieces.
EXTENDS Integers, Sequences, FiniteSets, TLC

\* ---------------------------------------------------------------- bounds

\* Request pathnames have at most this many characters.
MaxPathLen == 4

\* The pathnames matchRoute is called with on its own have at most this many
\* characters.
MaxRouterPathLen == 6

\* Number of distinct payloads (message field values) an error can carry.
NumPayloads == 2

\* Calls of matchRoute made on one compiled route table.
MaxMatchCalls == 2

\* ------------------------------------------------------ response descriptors

\* response(body, {status}) : a single descriptor; status defaults to 200.
createResponse(body, status) ==
    [kind |-> "single", body |-> body, status |-> status]

\* response.union(...responses)
createUnion(responses) ==
    [kind |-> "union", responses |-> responses]

\* response(body, options): status is options?.status ?? 200.  The options
\* of the model are [hasStatus, status].
responseFn(body, options) ==
    createResponse(body, IF options.hasStatus THEN options.status ELSE 200)

isResponseUnion(schema) == schema.kind = "union"

getResponseSchemas(schema) ==
    IF isResponseUnion(schema) THEN schema.responses ELSE <<schema>>

\* getStatuses(schema): the declared statuses, in declaration order.
getStatuses(schema) ==
    IF isResponseUnion(schema)
    THEN [k \in 1..Len(schema.responses) |-> schema.responses[k].status]
    ELSE <<schema.status>>

\* A default taken from the last member of a union.
getDefaultStatusOfLast(schema) ==
    IF isResponseUnion(schema)
    THEN (IF Len(schema.responses) >= 1
          THEN schema.responses[Len(schema.responses)].status ELSE 200)
    ELSE schema.status

getDefaultStatus(schema) ==
    IF isResponseUnion(schema)
    THEN (IF Len(schema.responses) >= 1 THEN schema.responses[1].status ELSE 200)
    ELSE schema.status

\* The body schemas of the model: "json" is any Schema.Struct, "stream" is the
\* StreamBody marker, "streamOrNull" is Schema.Union([StreamBody, Schema.Null]),
\* "none" is an absent body schema (handler.ts:293 substitutes Schema.Undefined).
isStreamBody(schema) == schema \in {"stream", "streamOrNull"}

\* ------------------------------------------------------------ error values

\* The class hierarchy of the error values of the model: "ConflictError"
\* extends "UserNotFoundError"; the others extend nothing.
ParentClass(cls) == IF cls = "ConflictError" THEN "UserNotFoundError" ELSE "none"

\* error instanceof ErrorConstructor.  A thrown string is no object.
InstanceOf(error, ctor) ==
    /\ error.kind = "object"
    /\ \/ error.cls = ctor
       \/ ParentClass(error.cls) = ctor

\* The message field of the n-th payload.
UserMessage(n) == <<"user message ", ToString(n)>>

\* The values a handler can fail or die with: instances of the two declared
\* error classes, of an undeclared class, and a thrown string.
UserErrors ==
    { [kind |-> IF c = "string" THEN "string" ELSE "object",
       cls |-> c, message |-> UserMessage(n)] :
        c \in {"UserNotFoundError", "ConflictError", "TypeError", "string"},
        n \in 1..NumPayloads }

ValidationError(message, issues) ==
    [kind |-> "object", cls |-> "ValidationError", message |-> message,
     issues |-> issues]

NotFoundError(message) ==
    [kind |-> "object", cls |-> "NotFoundError", message |-> message]

MethodNotAllowedError(message, allowed) ==
    [kind |-> "object", cls |-> "MethodNotAllowedError", message |-> message,
     allowed |-> allowed]

\* ------------------------------------------------------------- the contracts

Success200 == createResponse("json", 200)

Success201 == createResponse("json", 201)

SuccessUnion == createUnion(<<createResponse("json", 201), createResponse("json", 200)>>)

FailureSingle == createResponse("UserNotFoundError", 404)

\* ConflictError extends UserNotFoundError, and is declared after it.
FailureUnion ==
    createUnion(<<createResponse("UserNotFoundError", 404),
                  createResponse("ConflictError", 409)>>)

NoFailure == createUnion(<<>>)

\* A route definition: the declared keys of path, query and headers (an empty
\* sequence is an absent schema map), the body schema, success and failure
\* (hasFailure = FALSE is an absent failure).
RouteDefinition(path, query, headers, body, success, hasFailure, failure) ==
    [path |-> path, query |-> query, headers |-> headers, body |-> body,
     success |-> success, hasFailure |-> hasFailure, failure |-> failure]

\* A contract is the sequence of its entries in declaration order
\* (Object.entries), each a pattern and the sequence of its methods in
\* declaration order (Object.keys), each with its definition.
UsersContract ==
    << [pattern |-> <<"/", "u">>,
        methods |-> <<
          [method |-> "get",
           definition |-> RouteDefinition(<<>>, <<"q">>, <<>>, "none",
                                          Success200, FALSE, NoFailure)],
          [method |-> "post",
           definition |-> RouteDefinition(<<>>, <<>>, <<"h">>, "json",
                                          SuccessUnion, TRUE, FailureUnion)] >>],
       [pattern |-> <<"/", "u", "/", "{", "i", "}">>,
        methods |-> <<
          [method |-> "get",
           definition |-> RouteDefinition(<< <<"i">> >>, <<>>, <<>>, "none",
                                          Success200, TRUE, FailureSingle)] >>],
       [pattern |-> <<"/", "u", "/", "m">>,
        methods |-> <<
          [method |-> "get",
           definition |-> RouteDefinition(<<>>, <<>>, <<>>, "none",
                                          SuccessUnion, FALSE, NoFailure)],
          [method |-> "delete",
           definition |-> RouteDefinition(<<>>, <<>>, <<>>, "none",
                                          Success200, FALSE, NoFailure)] >>] >>

StreamContract ==
    << [pattern |-> <<"/", "s">>,
        methods |-> <<
          [method |-> "post",
           definition |-> RouteDefinition(<<>>, <<"q">>, <<"h">>, "stream",
                                          Success200, TRUE, FailureUnion)],
          [method |-> "delete",
           definition |-> RouteDefinition(<<>>, <<>>, <<>>, "streamOrNull",
                                          Success200, FALSE, NoFailure)] >>] >>

\* Schema.withDecodingDefault: the query parameter "d" of the model declares
\* a decoding default, the other keys declare none.
DecodingDefault(key) ==
    [has |-> key = "d", value |-> [decoded |-> "default"]]

\* A definition that carries a decodePath entry next to its schemas.
withDecodePath(definition, flag) ==
    [f \in DOMAIN definition \cup {"decodePath"} |->
        IF f = "decodePath" THEN flag ELSE definition[f]]

\* The contracts of test/handler.test.ts:478, :538 and :665 on one pattern: a
\* route whose path parameter is decoded by default and whose query parameter
\* has a decoding default, and a route that sets decodePath: false and
\* declares the one success status 201.
ItemsContract ==
    << [pattern |-> <<"/", "{", "n", "}">>,
        methods |-> <<
          [method |-> "get",
           definition |-> RouteDefinition(<< <<"n">> >>, <<"d">>, <<>>, "none",
                                          Success200, FALSE, NoFailure)],
          [method |-> "post",
           definition |-> withDecodePath(
                            RouteDefinition(<< <<"n">> >>, <<>>, <<>>, "none",
                                            Success201, FALSE, NoFailure),
                            FALSE)] >>] >>

Contracts == {UsersContract, StreamContract, ItemsContract}

\* A definition that declares nothing but its success response.
PlainDefinition ==
    RouteDefinition(<<>>, <<>>, <<>>, "none", Success200, FALSE, NoFailure)

\* The contract of test/router.test.ts:7: a static route, a route with one
\* placeholder whose methods are declared get, put, delete, and a route with
\* two placeholders.
RouterContract ==
    << [pattern |-> <<"/", "u">>,
        methods |-> << [method |-> "get", definition |-> PlainDefinition],
                       [method |-> "post", definition |-> PlainDefinition] >>],
       [pattern |-> <<"/", "u", "/", "{", "i", "}">>,
        methods |-> << [method |-> "get", definition |-> PlainDefinition],
                       [method |-> "put", definition |-> PlainDefinition],
                       [method |-> "delete", definition |-> PlainDefinition] >>],
       [pattern |-> <<"/", "p", "/", "{", "a", "}", "/", "{", "b", "}">>,
        methods |-> << [method |-> "get", definition |-> PlainDefinition] >>] >>

\* The contract of test/router.test.ts:132: static patterns that hold ".",
\* "*", "+", "(" and ")".
SpecialContract ==
    << [pattern |-> <<"/", "v", ".", "0">>,
        methods |-> << [method |-> "get", definition |-> PlainDefinition] >>],
       [pattern |-> <<"/", "f", "*", "t">>,
        methods |-> << [method |-> "get", definition |-> PlainDefinition] >>],
       [pattern |-> <<"/", "s", "+", "q">>,
        methods |-> << [method |-> "get", definition |-> PlainDefinition] >>],
       [pattern |-> <<"/", "(", "g", ")">>,
        methods |-> << [method |-> "get", definition |-> PlainDefinition] >>] >>

RouterContracts == {RouterContract, SpecialContract}

\* ------------------------------------------------------------ route table

\* The index of the first "}" after position i of pattern p, 0 if none.
RECURSIVE closingBrace(_, _)
closingBrace(p, i) ==
    IF i > Len(p) THEN 0
    ELSE IF p[i] = "}" THEN i
    ELSE closingBrace(p, i + 1)

\* The quantifier a regular expression reads at position i of its source.
quantifierAt(p, i) ==
    IF i > Len(p) THEN "one"
    ELSE IF p[i] = "*" THEN "star"
    ELSE IF p[i] = "+" THEN "plus"
    ELSE IF p[i] = "?" THEN "opt"
    ELSE "one"

\* pattern.replace(/\{([^}]+)\}/g, ...) and new RegExp(`^${regexPattern}$`):
\* every {name} becomes the named group (?<name>[^/]+); every other character
\* of the pattern is regular expression source as it stands, so "." is any
\* character, "*", "+" and "?" quantify the atom before them and "(" ")"
\* delimit a group.  The result is the sequence of the expression's atoms.
RECURSIVE regexAtoms(_, _)
regexAtoms(p, i) ==
    IF i > Len(p) THEN <<>>
    ELSE
      LET close == IF p[i] = "{" THEN closingBrace(p, i + 1) ELSE 0
          isParam == close > i + 1
          last == IF isParam THEN close ELSE i
          q == quantifierAt(p, last + 1)
          next == IF q = "one" THEN last + 1 ELSE last + 2
          atom == IF isParam
                  THEN [t |-> "param", name |-> SubSeq(p, i + 1, close - 1), q |-> q]
                  ELSE IF p[i] = "." THEN [t |-> "any", name |-> <<>>, q |-> q]
                  ELSE IF p[i] = "(" THEN [t |-> "open", name |-> <<>>, q |-> "one"]
                  ELSE IF p[i] = ")" THEN [t |-> "close", name |-> <<>>, q |-> "one"]
                  ELSE [t |-> "lit", name |-> <<p[i]>>, q |-> q]
      IN <<atom>> \o regexAtoms(p, next)

\* The names of the {name} placeholders, in pattern order.
RECURSIVE paramNamesOf(_)
paramNamesOf(atoms) ==
    IF atoms = <<>> THEN <<>>
    ELSE (IF Head(atoms).t = "param" THEN <<Head(atoms).name>> ELSE <<>>)
         \o paramNamesOf(Tail(atoms))

compilePattern(pattern) ==
    LET atoms == regexAtoms(pattern, 1)
    IN [regex |-> atoms, paramNames |-> paramNamesOf(atoms)]

\* The alphabetical rank of a method name.
MethodRank(method) ==
    IF method = "delete" THEN 1
    ELSE IF method = "get" THEN 2
    ELSE IF method = "patch" THEN 3
    ELSE IF method = "post" THEN 4
    ELSE IF method = "put" THEN 5
    ELSE 6

RECURSIVE insertByRank(_, _)
insertByRank(method, sorted) ==
    IF sorted = <<>> THEN <<method>>
    ELSE IF MethodRank(method) <= MethodRank(Head(sorted))
    THEN <<method>> \o sorted
    ELSE <<Head(sorted)>> \o insertByRank(method, Tail(sorted))

\* Object.keys(methods).sort()
RECURSIVE methodKeysSorted(_)
methodKeysSorted(methods) ==
    IF methods = <<>> THEN <<>>
    ELSE insertByRank(Head(methods).method, methodKeysSorted(Tail(methods)))

\* Object.keys(methods)
RECURSIVE methodKeys(_)
methodKeys(methods) ==
    IF methods = <<>> THEN <<>>
    ELSE <<Head(methods).method>> \o methodKeys(Tail(methods))

RECURSIVE compileContract(_)
compileContract(contract) ==
    IF contract = <<>> THEN <<>>
    ELSE LET entry == Head(contract)
             compiled == compilePattern(entry.pattern)
         IN << [pattern |-> entry.pattern,
                regex |-> compiled.regex,
                paramNames |-> compiled.paramNames,
                methods |-> methodKeys(entry.methods),
                definitions |-> entry.methods] >>
            \o compileContract(Tail(contract))

\* ------------------------------------------------------- regular expressions

NoMatch == [ok |-> FALSE, groups |-> <<>>]

atomAccepts(atom, c) ==
    IF atom.t = "lit" THEN c = atom.name[1]
    ELSE IF atom.t = "param" THEN c # "/"
    ELSE atom.t = "any"

\* How many characters of s, from position i on, the atom accepts in a row.
RECURSIVE runLength(_, _, _)
runLength(atom, s, i) ==
    IF i > Len(s) \/ ~atomAccepts(atom, s[i]) THEN 0
    ELSE 1 + runLength(atom, s, i + 1)

Min(a, b) == IF a < b THEN a ELSE b

\* regex.exec from atom k and position i: backtracking, greedy first.  A
\* match is anchored at both ends and carries the named groups.
RECURSIVE matchFrom(_, _, _, _)
RECURSIVE tryCount(_, _, _, _, _, _)

tryCount(re, k, s, i, n, lo) ==
    IF n < lo THEN NoMatch
    ELSE LET r == matchFrom(re, k + 1, s, i + n)
         IN IF r.ok
            THEN (IF re[k].t = "param"
                  THEN [ok |-> TRUE,
                        groups |-> (re[k].name :> SubSeq(s, i, i + n - 1)) @@ r.groups]
                  ELSE r)
            ELSE tryCount(re, k, s, i, n - 1, lo)

matchFrom(re, k, s, i) ==
    IF k > Len(re)
    THEN (IF i = Len(s) + 1 THEN [ok |-> TRUE, groups |-> <<>>] ELSE NoMatch)
    ELSE IF re[k].t \in {"open", "close"} THEN matchFrom(re, k + 1, s, i)
    ELSE LET run == runLength(re[k], s, i)
             q == re[k].q
             isGroup == re[k].t = "param"
             lo == IF isGroup \/ q \in {"one", "plus"} THEN 1 ELSE 0
             hi == IF isGroup \/ q \in {"star", "plus"} THEN run ELSE Min(run, 1)
         IN tryCount(re, k, s, i, hi, lo)

\* Percent-decoding, as decodeURIComponent does it, of the escapes the model's
\* pathnames hold: a "%" followed by two hexadecimal digits is one character.
HexDigits ==
    {"0", "1", "2", "3", "4", "5", "6", "7", "8", "9",
     "A", "B", "C", "D", "E", "F", "a", "b", "c", "d", "e", "f"}

\* Every "%" of raw starts an escape (decodeURIComponent throws otherwise).
RECURSIVE WellEncoded(_)
WellEncoded(raw) ==
    IF raw = <<>> THEN TRUE
    ELSE IF Head(raw) # "%" THEN WellEncoded(Tail(raw))
    ELSE /\ Len(raw) >= 3
         /\ raw[2] \in HexDigits
         /\ raw[3] \in HexDigits
         /\ WellEncoded(SubSeq(raw, 4, Len(raw)))

\* The character an escape stands for.
EscapedChar(h1, h2) ==
    IF <<h1, h2>> = <<"2", "0">> THEN " "
    ELSE IF <<h1, h2>> = <<"2", "F">> THEN "/"
    ELSE IF <<h1, h2>> = <<"4", "1">> THEN "A"
    ELSE "?"

RECURSIVE PercentDecoded(_)
PercentDecoded(raw) ==
    IF raw = <<>> THEN <<>>
    ELSE IF Head(raw) = "%" /\ Len(raw) >= 3
                            /\ raw[2] \in HexDigits /\ raw[3] \in HexDigits
    THEN <<EscapedChar(raw[2], raw[3])>> \o PercentDecoded(SubSeq(raw, 4, Len(raw)))
    ELSE <<Head(raw)>> \o PercentDecoded(Tail(raw))

\* A matcher that percent-decodes what it captures.
regexExecDecoding(regex, pathname) ==
    LET r == matchFrom(regex, 1, pathname, 1)
    IN IF r.ok
       THEN [ok |-> TRUE,
             groups |-> [n \in DOMAIN r.groups |-> PercentDecoded(r.groups[n])]]
       ELSE r

regexExec(regex, pathname) == matchFrom(regex, 1, pathname, 1)

\* ------------------------------------------------------------- matchRoute

\* A lookup with the method as the request spells it.
sameCase(method) == method

\* String.prototype.toLowerCase on the method names of the model.
toLowerCase(method) ==
    IF method = "GET" THEN "get"
    ELSE IF method = "POST" THEN "post"
    ELSE IF method = "DELETE" THEN "delete"
    ELSE IF method = "Get" THEN "get"
    ELSE IF method = "PUT" THEN "put"
    ELSE IF method = "pUt" THEN "put"
    ELSE IF method = "Post" THEN "post"
    ELSE IF method = "PATCH" THEN "patch"
    ELSE method

\* route.definitions[normalizedMethod], as [found, definition]
RECURSIVE definitionOf(_, _)
definitionOf(definitions, method) ==
    IF definitions = <<>> THEN [found |-> FALSE]
    ELSE IF Head(definitions).method = method
         THEN [found |-> TRUE, definition |-> Head(definitions).definition]
         ELSE definitionOf(Tail(definitions), method)

\* A lookup that goes on to later routes when the first accepting route lacks
\* the method.
RECURSIVE matchRouteFromMerging(_, _, _, _)
matchRouteFromMerging(routes, k, pathname, normalizedMethod) ==
    IF k > Len(routes) THEN [matched |-> FALSE, hasAllowed |-> FALSE]
    ELSE LET route == routes[k]
             match == regexExec(route.regex, pathname)
             def == definitionOf(route.definitions, normalizedMethod)
             later == matchRouteFromMerging(routes, k + 1, pathname, normalizedMethod)
         IN IF match.ok
            THEN (IF def.found
                  THEN [matched |-> TRUE, route |-> route,
                        method |-> normalizedMethod,
                        definition |-> def.definition, params |-> match.groups]
                  ELSE IF later.matched THEN later
                  ELSE [matched |-> FALSE, hasAllowed |-> TRUE,
                        allowedMethods |-> route.methods])
            ELSE later

RECURSIVE matchRouteFrom(_, _, _, _)
matchRouteFrom(routes, k, pathname, normalizedMethod) ==
    IF k > Len(routes) THEN [matched |-> FALSE, hasAllowed |-> FALSE]
    ELSE LET route == routes[k]
             match == regexExec(route.regex, pathname)
             def == definitionOf(route.definitions, normalizedMethod)
         IN IF match.ok
            THEN (IF def.found
                  THEN [matched |-> TRUE, route |-> route,
                        method |-> normalizedMethod,
                        definition |-> def.definition, params |-> match.groups]
                  ELSE [matched |-> FALSE, hasAllowed |-> TRUE,
                        allowedMethods |-> route.methods])
            ELSE matchRouteFrom(routes, k + 1, pathname, normalizedMethod)

matchRoute(routes, pathname, method) ==
    matchRouteFrom(routes, 1, pathname, toLowerCase(method))

isRouteMatch(result) == result.matched

\* ------------------------------------------------------------ the requests

\* The pathnames requests are drawn from (url.pathname).
CandidatePaths ==
    { <<"/", "u">>, <<"/", "s">>, <<"/", "x">>, <<"/", "u", "/">>,
      <<"/", "%", "2", "0">>, <<"/", "%", "Z", "Z">>,
      <<"/", "u", "/", "m">>, <<"/", "u", "/", "7">>,
      <<"/", "u", "/", "7", "7">>, <<"/", "u", "/", "m", "/">> }

Paths == { p \in CandidatePaths : Len(p) <= MaxPathLen }

Methods == {"GET", "POST", "DELETE", "Get"}

\* A request: its pathname and method; whether the captured path parameter
\* passes its schema; the declared query parameter and header, each absent,
\* passing ("ok") or failing ("bad") its schema; and the body: "none" (no
\* body: request.body is null and the text is empty), "badjson" (text that
\* JSON.parse rejects), "wrongshape" (JSON that fails the body schema) or "ok".
Requests ==
    [pathname : Paths, method : Methods, pathOk : BOOLEAN,
     query : {"absent", "ok", "bad"}, headers : {"absent", "ok", "bad"},
     body : {"none", "badjson", "wrongshape", "ok"}]

\* ------------------------------------------------------------ error formatting

\* JSON.stringify(value): the body of a Response, as the fields the text holds.
\* Of a class instance these are its own fields: kind and cls are the model's
\* record of typeof and of the prototype, and are no fields of the value.
\* A Response built with a null body has EmptyBody.
jsonStringify(value) ==
    [json |-> [f \in (DOMAIN value) \ {"kind", "cls"} |-> value[f]]]

EmptyBody == [empty |-> TRUE]

\* A formatter that echoes the message of an error it does not recognise.
defaultFormatErrorEchoing(error) ==
    IF error.cls = "ValidationError"
    THEN [status |-> 400,
          body |-> [error |-> "ValidationError", message |-> error.message,
                    issues |-> error.issues]]
    ELSE IF error.cls = "NotFoundError"
    THEN [status |-> 404,
          body |-> [error |-> "NotFoundError", message |-> error.message]]
    ELSE IF error.cls = "MethodNotAllowedError"
    THEN [status |-> 405,
          body |-> [error |-> "MethodNotAllowedError", message |-> error.message,
                    allowed |-> error.allowed]]
    ELSE [status |-> 500,
          body |-> [error |-> "InternalServerError", message |-> error.message]]

defaultFormatError(error) ==
    IF error.cls = "ValidationError"
    THEN [status |-> 400,
          body |-> [error |-> "ValidationError", message |-> error.message,
                    issues |-> error.issues]]
    ELSE IF error.cls = "NotFoundError"
    THEN [status |-> 404,
          body |-> [error |-> "NotFoundError", message |-> error.message]]
    ELSE IF error.cls = "MethodNotAllowedError"
    THEN [status |-> 405,
          body |-> [error |-> "MethodNotAllowedError", message |-> error.message,
                    allowed |-> error.allowed]]
    ELSE [status |-> 500,
          body |-> [error |-> "InternalServerError",
                    message |-> <<"An unexpected error occurred">>]]

\* The formatError options of the model: "default" is an absent option; the
\* others are the formatters of test/handler.test.ts:176, :273 and :250.
Formatters == {"default", "custom", "customHeaders", "customResponse"}

\* new Response("Internal Server Error", { status: 500, statusText, headers }):
\* its body property is a ReadableStream, which carries the text.
FormatterResponse ==
    [status |-> 500,
     statusText |-> <<"Internal Server Error">>,
     headers |-> ("Content-Type" :> <<"text/plain">>),
     body |-> [kind |-> "stream"],
     text |-> <<"Internal Server Error">>]

customFormatError(name, error) ==
    IF name = "custom"
    THEN [status |-> 500,
          body |-> [customError |-> TRUE, type |-> error.cls]]
    ELSE IF name = "customResponse"
    THEN FormatterResponse
    ELSE [status |-> 405,
          headers |-> ("X-Custom" :> <<"value">>),
          body |-> [error |-> <<"Method not allowed">>]]

\* const formatError = options.formatError ?? defaultFormatError
formatError(option, error) ==
    IF option = "default" THEN defaultFormatError(error)
    ELSE customFormatError(option, error)

\* Array.prototype.join
RECURSIVE join(_, _)
join(items, sep) ==
    IF items = <<>> THEN <<>>
    ELSE IF Len(items) = 1 THEN <<items[1]>>
    ELSE <<items[1], sep>> \o join(Tail(items), sep)

JsonHeaders == "Content-Type" :> <<"application/json">>

\* new Response(JSON.stringify(errorResponse.body),
\*   { status: errorResponse.status, headers: {"Content-Type": ...} })
errorResponseOf(errorResponse, headers) ==
    [status |-> errorResponse.status, headers |-> headers,
     body |-> jsonStringify(errorResponse.body)]

\* ------------------------------------------------------------- typed responses

createTypedResponse(body, status, headers) ==
    [brand |-> "TypedResponse", body |-> body, status |-> status, headers |-> headers]

\* A respond function that always answers with the default status.
createRespondFnDefaultOnly(definition, body, options, headers) ==
    createTypedResponse(body, getDefaultStatus(definition.success), headers)

\* ctx.respond(body, options): options?.status ?? defaultStatus.
createRespondFn(definition, body, options, headers) ==
    createTypedResponse(body,
                        IF options.hasStatus THEN options.status
                        ELSE getDefaultStatus(definition.success),
                        headers)

\* Headers treats names without regard to case: the model writes a header
\* under one spelling of its name.
headerName(key) == IF key = "content-type" THEN "Content-Type" ELSE key

\* new Headers(), then set(key, String(value)) for every entry of the object
\* whose value is neither undefined nor null.  An entry of the model is
\* [defined, value].
newHeaders(entries) ==
    LET kept == { k \in DOMAIN entries : entries[k].defined }
    IN [n \in { headerName(k) : k \in kept } |->
          entries[CHOOSE k \in kept : headerName(k) = n].value]

OctetStreamHeaders == "Content-Type" :> <<"application/octet-stream">>

\* A serialization that sets Content-Type over the one the handler gave.
serializeTypedResponseOverriding(typed) ==
    LET responseHeaders == newHeaders(typed.headers)
    IN IF typed.body.kind = "null"
       THEN [status |-> typed.status, headers |-> responseHeaders, body |-> EmptyBody]
       ELSE IF typed.body.kind = "stream"
       THEN [status |-> typed.status,
             headers |-> OctetStreamHeaders @@ responseHeaders,
             body |-> typed.body]
       ELSE [status |-> typed.status,
             headers |-> JsonHeaders @@ responseHeaders,
             body |-> jsonStringify(typed.body)]

\* The body values of the model are records; [kind |-> "null"] is null or
\* undefined and [kind |-> "stream"] a ReadableStream.
serializeTypedResponse(typed) ==
    LET responseHeaders == newHeaders(typed.headers)
    IN IF typed.body.kind = "null"
       THEN [status |-> typed.status, headers |-> responseHeaders, body |-> EmptyBody]
       ELSE IF typed.body.kind = "stream"
       THEN [status |-> typed.status,
             headers |-> IF "Content-Type" \in DOMAIN responseHeaders
                         THEN responseHeaders
                         ELSE responseHeaders @@ OctetStreamHeaders,
             body |-> typed.body]
       ELSE [status |-> typed.status,
             headers |-> IF "Content-Type" \in DOMAIN responseHeaders
                         THEN responseHeaders
                         ELSE responseHeaders @@ JsonHeaders,
             body |-> jsonStringify(typed.body)]

\* A scan that does not stop at the first match: the last matching member wins.
RECURSIVE lastFailureMatch(_, _)
lastFailureMatch(error, schemas) ==
    IF schemas = <<>> THEN [found |-> FALSE]
    ELSE LET rest == lastFailureMatch(error, Tail(schemas))
         IN IF rest.found THEN rest
            ELSE IF InstanceOf(error, Head(schemas).body)
            THEN [found |-> TRUE,
                  typed |-> createTypedResponse(error, Head(schemas).status, <<>>)]
            ELSE [found |-> FALSE]

\* The first declared failure member the error is an instance of.
RECURSIVE firstFailureMatch(_, _)
firstFailureMatch(error, schemas) ==
    IF schemas = <<>> THEN [found |-> FALSE]
    ELSE IF InstanceOf(error, Head(schemas).body)
         THEN [found |-> TRUE,
               typed |-> createTypedResponse(error, Head(schemas).status, <<>>)]
         ELSE firstFailureMatch(error, Tail(schemas))

matchContractFailure(error, definition) ==
    IF ~definition.hasFailure \/ error.kind # "object" THEN [found |-> FALSE]
    ELSE firstFailureMatch(error, getResponseSchemas(definition.failure))

\* ------------------------------------------------------------ input decoding

\* An Effect's failure: raised with Effect.fail ("fail") or a defect ("die").
Failure(how, error) == [tag |-> "Failure", how |-> how, error |-> error]

Success(value) == [tag |-> "Success", value |-> value]

\* decodeSchema's outcome for a raw value the schema rejects.
decodeFailure(message) == Failure("fail", ValidationError(message, <<"issue">>))

Decoded(raw) == [decoded |-> raw]

\* The first declared key, in declaration order, whose raw value is present
\* and fails its schema; <<>> if there is none.
RECURSIVE firstBadKey(_, _, _)
firstBadKey(keys, present, bad) ==
    IF keys = <<>> THEN <<>>
    ELSE IF Head(keys) \in present /\ bad THEN <<Head(keys)>>
    ELSE firstBadKey(Tail(keys), present, bad)

keySet(keys) == { keys[n] : n \in 1..Len(keys) }

parsePath(params, definition, request) ==
    IF definition.path = <<>> THEN Success(params)
    ELSE LET bad == firstBadKey(definition.path, DOMAIN params, ~request.pathOk)
         IN IF bad # <<>>
            THEN decodeFailure(<<"Invalid path parameter: ">> \o bad[1])
            ELSE Success([key \in keySet(definition.path) \cap DOMAIN params
                            |-> Decoded(params[key])])

parseQuery(definition, request) ==
    IF definition.query = <<>> THEN Success(<<>>)
    ELSE LET present == IF request.query = "absent" THEN {} ELSE keySet(definition.query)
             bad == firstBadKey(definition.query, present, request.query = "bad")
         IN IF bad # <<>>
            THEN decodeFailure(<<"Invalid query parameter: ", bad[1]>>)
            ELSE Success([key \in present |-> Decoded(request.query)])

parseHeaders(definition, request) ==
    IF definition.headers = <<>> THEN Success(<<>>)
    ELSE LET present == IF request.headers = "absent" THEN {} ELSE keySet(definition.headers)
             bad == firstBadKey(definition.headers, present, request.headers = "bad")
         IN IF bad # <<>>
            THEN decodeFailure(<<"Invalid header: ", bad[1]>>)
            ELSE Success([key \in present |-> Decoded(request.headers)])

\* A body parser that reports text JSON.parse rejects with the message of a
\* schema failure.
parseBodyOneMessage(definition, request) ==
    IF definition.body = "none" THEN Success([kind |-> "null"])
    ELSE IF isStreamBody(definition.body)
    THEN Success(IF request.body = "none" THEN [kind |-> "null"]
                 ELSE [kind |-> "stream"])
    ELSE IF request.body = "none" THEN Success([kind |-> "null"])
    ELSE IF request.body \in {"badjson", "wrongshape"}
    THEN decodeFailure(<<"Invalid request body">>)
    ELSE Success([kind |-> "object", decoded |-> request.body])

parseBody(definition, request) ==
    IF definition.body = "none" THEN Success([kind |-> "null"])
    ELSE IF isStreamBody(definition.body)
    THEN Success(IF request.body = "none" THEN [kind |-> "null"]
                 ELSE [kind |-> "stream"])
    ELSE IF request.body = "none" THEN Success([kind |-> "null"])
    ELSE IF request.body = "badjson"
    THEN Failure("fail", ValidationError(<<"Invalid JSON body">>, <<>>))
    ELSE IF request.body = "wrongshape"
    THEN decodeFailure(<<"Invalid request body">>)
    ELSE Success([kind |-> "object", decoded |-> request.body])

\* A decoder that hands the handler an undefined body when the body fails.
decodeInputsIgnoringBody(match, request) ==
    LET path == parsePath(match.params, match.definition, request)
        query == parseQuery(match.definition, request)
        headers == parseHeaders(match.definition, request)
        body == parseBody(match.definition, request)
    IN IF path.tag = "Failure" THEN path
       ELSE IF query.tag = "Failure" THEN query
       ELSE IF headers.tag = "Failure" THEN headers
       ELSE Success([path |-> path.value, query |-> query.value,
                     headers |-> headers.value,
                     body |-> IF body.tag = "Failure" THEN [kind |-> "null"]
                              ELSE body.value])

\* A decoder that reports the failure of the last failing channel.
decodeInputsLastFailure(match, request) ==
    LET path == parsePath(match.params, match.definition, request)
        query == parseQuery(match.definition, request)
        headers == parseHeaders(match.definition, request)
        body == parseBody(match.definition, request)
    IN IF body.tag = "Failure" THEN body
       ELSE IF headers.tag = "Failure" THEN headers
       ELSE IF query.tag = "Failure" THEN query
       ELSE IF path.tag = "Failure" THEN path
       ELSE Success([path |-> path.value, query |-> query.value,
                     headers |-> headers.value, body |-> body.value])

\* Effect.all([parsePath, parseQuery, parseHeaders, parseBody],
\* { concurrency: "unbounded" }): the four fibers are started in array order
\* and the first three never suspend, so the failure reported is that of the
\* first failing channel in array order.
decodeInputs(match, request) ==
    LET path == parsePath(match.params, match.definition, request)
        query == parseQuery(match.definition, request)
        headers == parseHeaders(match.definition, request)
        body == parseBody(match.definition, request)
    IN IF path.tag = "Failure" THEN path
       ELSE IF query.tag = "Failure" THEN query
       ELSE IF headers.tag = "Failure" THEN headers
       ELSE IF body.tag = "Failure" THEN body
       ELSE Success([path |-> path.value, query |-> query.value,
                     headers |-> headers.value, body |-> body.value])

\* --------------------------------------------------------------- handlers

\* What a user handler can do with its context: return ctx.respond(body,
\* {status}) with no status option or one of the declared or undeclared
\* statuses, return a bare value, fail with an error or die with a defect.
\* The options of ctx.respond: no status, or one the success descriptors of
\* the model declare.
RespondOptions ==
    { [hasStatus |-> FALSE, status |-> 0] }
      \cup [hasStatus : {TRUE}, status : {200, 201}]

HandlerOutcomes ==
    [kind : {"respond"}, options : RespondOptions]
      \cup { [kind |-> "bare"] }
      \cup [kind : {"fail", "die"}, error : UserErrors]

\* The value a handler answers with.
HandlerValue == [kind |-> "object", id |-> <<"1">>]

\* The generator of handleRequest from the handler's outcome on: a typed
\* response is serialized, a bare value is sent as JSON with status 200.
handlerExit(definition, outcome) ==
    IF outcome.kind = "respond"
    THEN Success(serializeTypedResponse(
           createRespondFn(definition, HandlerValue, outcome.options, <<>>)))
    ELSE IF outcome.kind = "bare"
    THEN Success([status |-> 200, headers |-> JsonHeaders,
                  body |-> jsonStringify(HandlerValue)])
    ELSE Failure(outcome.kind, outcome.error)

\* An exit hook that leaves the stream alone.
onExitStreamNever(exit, streamBody, state) == state

\* An exit hook that does not look at the exit.
onExitStreamAlways(exit, streamBody, state) ==
    IF streamBody /\ state # "locked" THEN "cancelled" ELSE state

\* Effect.onExit: the request body of a stream route is cancelled when the
\* Effect failed and the stream is not locked.
onExitStream(exit, streamBody, state) ==
    IF exit.tag = "Failure" /\ streamBody /\ state # "locked"
    THEN "cancelled" ELSE state

\* ----------------------------------------------------- handleRequest's answers

\* handler.ts:250-264: the path matched a route that lacks the method.
methodNotAllowedError(request, allowedMethods) ==
    MethodNotAllowedError(<<"Method ", request.method, " not allowed">>, allowedMethods)

methodNotAllowedResponse(option, request, allowedMethods) ==
    errorResponseOf(formatError(option, methodNotAllowedError(request, allowedMethods)),
                    JsonHeaders @@ ("Allow" :> join(allowedMethods, ", ")))

\* The not-found answer built with the headers of the 405 branch.
notFoundResponseWithAllow(option, message) ==
    errorResponseOf(formatError(option, NotFoundError(<<message>>)),
                    JsonHeaders @@ ("Allow" :> <<>>))

\* handler.ts:266-273 ("Route not found") and :282-290 ("Handler not found").
notFoundResponse(option, message) ==
    errorResponseOf(formatError(option, NotFoundError(<<message>>)), JsonHeaders)

\* A lookup that finds a handler for every declared route.
methodImplAny(implementation, match) == TRUE

\* impl[match.route.pattern]?.[match.method]
methodImpl(implementation, match) ==
    <<match.route.pattern, match.method>> \in implementation

\* Effect.catch: a failure raised with Effect.fail is answered from the
\* declared failure member it is an instance of, and by formatError if there
\* is none.
caughtResponse(option, error, definition) ==
    LET contractFailure == matchContractFailure(error, definition)
    IN IF contractFailure.found
       THEN serializeTypedResponse(contractFailure.typed)
       ELSE errorResponseOf(formatError(option, error), JsonHeaders)

\* ------------------------------------------------------------------- state

VARIABLES
    contract,        \* service.Contract
    impl,            \* the pairs <<pattern, method>> the implementation has a handler for
    options,         \* options.formatError
    routes,          \* compileContract(service.Contract)
    pc,              \* where the current request is
    request,         \* the current request
    match,           \* matchRoute's result for it
    context,         \* the decoded inputs handed to the handler
    exit,            \* the Exit of the request's Effect before Effect.catch
    stream,          \* request.body: "null", "open", "locked" or "cancelled"
    response,        \* the Response the promise resolved to
    handlerCalls,    \* how often a user handler was invoked for the request
    formatterCalls,  \* the errors formatError was called with for the request
    argument,        \* the argument of a helper called on its own
    result,          \* what the helper returned
    matchCalls       \* how often matchRoute was called on the route table

vars == <<contract, impl, options, routes, pc, request, match, context, exit,
          stream, response, handlerCalls, formatterCalls, argument, result,
          matchCalls>>

config == <<contract, impl, options, routes>>

\* What handleRequest has no part in: the helpers called on their own.
aside == <<argument, result, matchCalls>>

None == [kind |-> "null"]

\* No Effect with an exit hook has run for the request (yet).
NoExit == [tag |-> "none"]

\* Every <<pattern, method>> of a contract.
allHandlers(c) ==
    UNION { { <<c[k].pattern, c[k].methods[m].method>> :
                m \in 1..Len(c[k].methods) } : k \in 1..Len(c) }

\* The implementations of the model: one with a handler for every declared
\* route, and one that lacks the handler of the contract's first definition.
Implementations(c) ==
    { allHandlers(c),
      allHandlers(c) \ { <<c[1].pattern, c[1].methods[1].method>> } }

\* FetchHandler.from(service, options): the route table is compiled once.
Init ==
    /\ contract \in Contracts
    /\ impl \in Implementations(contract)
    /\ options \in Formatters
    /\ routes = compileContract(contract)
    /\ pc = "idle"
    /\ request = None
    /\ match = None
    /\ context = None
    /\ exit = NoExit
    /\ stream = "null"
    /\ response = None
    /\ handlerCalls = 0
    /\ formatterCalls = <<>>
    /\ argument = None
    /\ result = None
    /\ matchCalls = 0

\* The function FetchHandler.from returns is called with a request:
\* handleRequest up to the Effect it returns.  Without a route match and
\* without a handler the Effect is Effect.succeed(response).
Fetch(req) ==
    /\ pc = "idle"
    /\ request' = req
    /\ LET matchResult == matchRoute(routes, req.pathname, req.method)
       IN /\ match' = matchResult
          /\ IF ~isRouteMatch(matchResult)
             THEN IF matchResult.hasAllowed
                  THEN /\ formatterCalls' =
                            <<methodNotAllowedError(req, matchResult.allowedMethods)>>
                       /\ response' = methodNotAllowedResponse(
                                        options, req, matchResult.allowedMethods)
                       /\ pc' = "resolved"
                  ELSE /\ formatterCalls' = <<NotFoundError(<<"Route not found">>)>>
                       /\ response' = notFoundResponse(options, "Route not found")
                       /\ pc' = "resolved"
             ELSE IF ~methodImpl(impl, matchResult)
                  THEN /\ formatterCalls' = <<NotFoundError(<<"Handler not found">>)>>
                       /\ response' = notFoundResponse(options, "Handler not found")
                       /\ pc' = "resolved"
                  ELSE /\ formatterCalls' = <<>>
                       /\ response' = None
                       /\ pc' = "decoding"
    /\ stream' = IF req.body = "none" THEN "null" ELSE "open"
    /\ context' = None
    /\ exit' = NoExit
    /\ handlerCalls' = 0
    /\ UNCHANGED <<config, aside>>

\* Effect.all over the four input channels.  Reading a JSON body with
\* request.text() locks the request's stream.
Decode ==
    /\ pc = "decoding"
    /\ LET decoded == decodeInputs(match, request)
       IN IF decoded.tag = "Failure"
          THEN /\ exit' = decoded
               /\ context' = None
               /\ pc' = "exiting"
          ELSE /\ exit' = NoExit
               /\ context' = decoded.value
               /\ pc' = "handling"
    /\ stream' = IF match.definition.body = "json" /\ stream = "open"
                 THEN "locked" ELSE stream
    /\ UNCHANGED <<config, aside, request, match, response, handlerCalls,
                   formatterCalls>>

\* methodImpl(context) runs to its outcome; a handler given the request's
\* stream may have taken a reader of it (lock) by then.
Handle(outcome, lock) ==
    /\ pc = "handling"
    /\ handlerCalls' = handlerCalls + 1
    /\ exit' = handlerExit(match.definition, outcome)
    /\ stream' = IF lock /\ context.body.kind = "stream" /\ stream = "open"
                 THEN "locked" ELSE stream
    /\ pc' = "exiting"
    /\ UNCHANGED <<config, aside, request, match, context, response,
                   formatterCalls>>

\* The Effect completes: Effect.onExit, then Effect.catch, then the promise
\* of Effect.runPromise settles.  Effect.catch handles failures raised with
\* Effect.fail; a defect passes it and rejects the promise.
Complete ==
    /\ pc = "exiting"
    /\ stream' = onExitStream(exit,
                              isStreamBody(match.definition.body) /\ stream # "null",
                              stream)
    /\ IF exit.tag = "Success"
       THEN /\ response' = exit.value
            /\ formatterCalls' = formatterCalls
            /\ pc' = "resolved"
       ELSE IF exit.how = "fail"
       THEN /\ response' = caughtResponse(options, exit.error, match.definition)
            /\ formatterCalls' =
                 IF matchContractFailure(exit.error, match.definition).found
                 THEN formatterCalls
                 ELSE Append(formatterCalls, exit.error)
            /\ pc' = "resolved"
       ELSE /\ response' = None
            /\ formatterCalls' = formatterCalls
            /\ pc' = "rejected"
    /\ UNCHANGED <<config, aside, request, match, context, exit, handlerCalls>>

\* The caller takes the settled promise's outcome.  Nothing of the request
\* is kept: handleRequest has no state but its arguments and locals.
Await ==
    /\ pc \in {"resolved", "rejected"}
    /\ pc' = "idle"
    /\ request' = None
    /\ match' = None
    /\ context' = None
    /\ exit' = NoExit
    /\ stream' = "null"
    /\ response' = None
    /\ handlerCalls' = 0
    /\ formatterCalls' = <<>>
    /\ UNCHANGED <<config, aside>>

Next ==
    \/ pc = "idle" /\ \E req \in Requests : Fetch(req)
    \/ Decode
    \/ pc = "handling" /\
         \E outcome \in HandlerOutcomes, lock \in BOOLEAN : Handle(outcome, lock)
    \/ Complete
    \/ Await

Spec == Init /\ [][Next]_vars

TypeOK == pc \in {"idle", "decoding", "handling", "exiting", "resolved", "rejected"}

\* ------------------------------------------------------------------ claims

\* The promise of the current request has settled.
Settled == pc \in {"resolved", "rejected"}

\* The request's Effect failed with a value raised with Effect.fail by the
\* handler.
HandlerFailed ==
    /\ pc = "resolved"
    /\ handlerCalls = 1
    /\ exit.tag = "Failure"
    /\ exit.how = "fail"

\* The declared failure members of the matched route.
DeclaredFailures ==
    IF match.definition.hasFailure
    THEN getResponseSchemas(match.definition.failure) ELSE <<>>

\* The JSON text of a body that holds exactly the error's message field.
ErrorBody(error) == [json |-> [message |-> error.message]]

\* The indexes of the compiled routes whose pattern accepts the request path.
AcceptingRoutes ==
    { k \in 1..Len(routes) : regexExec(routes[k].regex, request.pathname).ok }

\* C1: every request settles with a Response: the promise of the fetch
\* function is never rejected, whatever the handler does.
C1_NeverRejects == pc # "rejected"

\* C2 as stated: when a handler fails with an instance of a failure member
\* declared with status S, the response has status S and the error's fields
\* as its JSON body.
C2_EveryMatchingMember ==
    HandlerFailed =>
      \A k \in 1..Len(DeclaredFailures) :
        InstanceOf(exit.error, DeclaredFailures[k].body) =>
          /\ response.status = DeclaredFailures[k].status
          /\ response.body = ErrorBody(exit.error)

\* C2 amended: when a handler fails with an instance of a declared failure
\* member, the response has the status of the first declared member the error
\* is an instance of, and the error's fields as its JSON body.
C2_FirstMatchingMember ==
    HandlerFailed =>
      \A k \in 1..Len(DeclaredFailures) :
        ( /\ InstanceOf(exit.error, DeclaredFailures[k].body)
          /\ \A j \in 1..(k - 1) : ~InstanceOf(exit.error, DeclaredFailures[j].body) )
        => /\ response.status = DeclaredFailures[k].status
           /\ response.body = ErrorBody(exit.error)

\* A handler failed with a ConflictError, an instance of both declared
\* members, and the request was answered with the first member's status.
C2_Witness ==
    /\ HandlerFailed
    /\ exit.error.cls = "ConflictError"
    /\ Len(DeclaredFailures) = 2
    /\ response.status = 404

\* C3: with the default formatter, a failure that is none of the dispatcher's
\* own errors and no instance of a declared failure member is answered with
\* status 500 and the one generic body, whatever the error carries.
C3_GenericInternalError ==
    ( /\ pc = "resolved"
      /\ options = "default"
      /\ exit.tag = "Failure"
      /\ exit.error.cls \notin {"ValidationError", "NotFoundError", "MethodNotAllowedError"}
      /\ \A k \in 1..Len(DeclaredFailures) :
           ~InstanceOf(exit.error, DeclaredFailures[k].body) )
    => /\ response.status = 500
       /\ response.body =
            [json |-> [error |-> "InternalServerError",
                       message |-> <<"An unexpected error occurred">>]]

\* A handler failed with an undeclared TypeError under the default formatter.
C3_Witness ==
    /\ HandlerFailed
    /\ options = "default"
    /\ exit.error.cls = "TypeError"
    /\ response.status = 500

\* C4: the formatter is not consulted for an error that matches a declared
\* failure member, and is consulted for every other error of the request.
C4_FormatterForEveryOtherError ==
    (Settled /\ exit.tag = "Failure") =>
      IF \E k \in 1..Len(DeclaredFailures) :
           InstanceOf(exit.error, DeclaredFailures[k].body)
      THEN formatterCalls = <<>>
      ELSE formatterCalls = <<exit.error>>

\* C5: a user handler is invoked only for a request that matched a route and
\* whose four input channels all decoded.
C5_NoHandlerAfterFailure ==
    handlerCalls > 0 =>
      /\ AcceptingRoutes # {}
      /\ match.matched
      /\ parsePath(match.params, match.definition, request).tag = "Success"
      /\ parseQuery(match.definition, request).tag = "Success"
      /\ parseHeaders(match.definition, request).tag = "Success"
      /\ parseBody(match.definition, request).tag = "Success"

\* A request whose JSON body fails to decode was answered without a handler
\* having run.
C5_Witness ==
    /\ pc = "resolved"
    /\ match.matched
    /\ parseBody(match.definition, request).tag = "Failure"
    /\ handlerCalls = 0
    /\ response.status = 400

C7_NoCancelOnSuccess ==
    (pc = "resolved" /\ exit.tag = "Success") => stream # "cancelled"

\* A handler of a stream route succeeded and left the stream unread.
C7_Witness ==
    /\ pc = "resolved"
    /\ exit.tag = "Success"
    /\ handlerCalls = 1
    /\ isStreamBody(match.definition.body)
    /\ stream = "open"

\* C8: a request whose path a route accepts that has no definition for the
\* method is answered with an Allow header of that route's methods joined by
\* ", ": with status 405 under the default formatter, and together with the
\* headers a custom formatter supplies.
C8_AllowMergedWithFormatterHeaders ==
    (pc = "resolved" /\ ~match.matched /\ match.hasAllowed) =>
      LET first == CHOOSE k \in AcceptingRoutes : \A j \in AcceptingRoutes : k <= j
          supplied == IF options = "customHeaders"
                      THEN "X-Custom" :> <<"value">> ELSE <<>>
      IN /\ "Allow" \in DOMAIN response.headers
         /\ response.headers["Allow"] = join(routes[first].methods, ", ")
         /\ options = "default" => response.status = 405
         /\ \A h \in DOMAIN supplied :
              /\ h \in DOMAIN response.headers
              /\ response.headers[h] = supplied[h]

\* C9 as stated: a request whose path no route accepts is answered with
\* status 404 and no Allow header, and matchRoute reports no allowedMethods.
C9_Always404 ==
    (pc = "resolved" /\ AcceptingRoutes = {}) =>
      /\ response.status = 404
      /\ "Allow" \notin DOMAIN response.headers
      /\ ~match.matched /\ ~match.hasAllowed

\* C9 amended: a request whose path no route accepts is answered from the
\* formatter's answer to a NotFoundError (status 404 with the default
\* formatter) with no Allow header, and matchRoute reports no allowedMethods.
C9_NotFoundWithoutAllow ==
    (pc = "resolved" /\ AcceptingRoutes = {}) =>
      /\ formatterCalls = <<NotFoundError(<<"Route not found">>)>>
      /\ response.status = formatError(options, formatterCalls[1]).status
      /\ options = "default" =>
           /\ response.status = 404
           /\ response.body.json.error = "NotFoundError"
      /\ "Allow" \notin DOMAIN response.headers
      /\ ~match.matched /\ ~match.hasAllowed

\* A request for a path of no route was answered 404 by the default formatter.
C9_Witness ==
    /\ pc = "resolved"
    /\ request.pathname = <<"/", "x">>
    /\ options = "default"
    /\ response.status = 404

\* C10: the outcome of matching is that of the first route, in declaration
\* order, whose pattern accepts the path: a match with that route's
\* definition of the method, or method-not-allowed with that route's methods,
\* whatever later routes accept or define.
C10_FirstAcceptingRouteDecides ==
    (pc # "idle" /\ AcceptingRoutes # {}) =>
      LET first == CHOOSE k \in AcceptingRoutes : \A j \in AcceptingRoutes : k <= j
          def == definitionOf(routes[first].definitions, toLowerCase(request.method))
      IN IF def.found
         THEN /\ match.matched
              /\ match.route = routes[first]
              /\ match.definition = def.definition
         ELSE /\ ~match.matched
              /\ match.hasAllowed
              /\ match.allowedMethods = routes[first].methods

\* DELETE /u/m is accepted by /u/{i}, which has no delete, and by the later
\* /u/m, which has: the outcome is method-not-allowed with the methods of
\* /u/{i}.
C10_Witness ==
    /\ pc = "resolved"
    /\ request.pathname = <<"/", "u", "/", "m">>
    /\ request.method = "DELETE"
    /\ Cardinality(AcceptingRoutes) = 2
    /\ ~match.matched
    /\ match.allowedMethods = <<"get">>

\* --------------------------------------------------- matchRoute on its own

\* The pathnames and methods matchRoute is called with.
RouterCandidatePaths ==
    { <<"/", "u">>, <<"/", "x">>, <<"/", "u", "/">>, <<"/", "u", "/", "7">>,
      <<"/", "u", "/", "7", "7">>, <<"/", "u", "/", "%", "2", "0">>,
      <<"/", "u", "/", "%", "Z", "Z">>, <<"/", "p", "/", "7">>,
      <<"/", "p", "/", "7", "/", "8">>, <<"/", "p", "/", "7", "7", "/", "8">>,
      <<"/", "u", "/", "7", "%", "2", "0">>,
      <<"/", "v", ".", "0">>, <<"/", "v", "X", "0">>,
      <<"/", "f", "*", "t">>, <<"/", "f", "t">>, <<"/", "f", "X", "t">>,
      <<"/", "s", "+", "q">>, <<"/", "s", "q">>, <<"/", "s", "X", "q">>,
      <<"/", "(", "g", ")">>, <<"/", "g">>, <<"/", "X", "g", ")">> }

RouterPaths == { p \in RouterCandidatePaths : Len(p) <= MaxRouterPathLen }

RouterMethods == {"GET", "POST", "PUT", "DELETE", "get", "pUt", "Post", "PATCH"}

\* compileContract(contract), as the tests of the router call it.
RouterInit ==
    /\ contract \in RouterContracts
    /\ impl = allHandlers(contract)
    /\ options = "default"
    /\ routes = compileContract(contract)
    /\ pc = "idle"
    /\ request = None
    /\ match = None
    /\ context = None
    /\ exit = NoExit
    /\ stream = "null"
    /\ response = None
    /\ handlerCalls = 0
    /\ formatterCalls = <<>>
    /\ argument = None
    /\ result = None
    /\ matchCalls = 0

\* A matcher whose regular expressions keep a position between calls (the
\* g flag): the route that matched does not match the next call.
MatchRouteSticky(pathname, method) ==
    /\ pc = "idle"
    /\ matchCalls < MaxMatchCalls
    /\ request' = [pathname |-> pathname, method |-> method]
    /\ match' = matchRoute(routes, pathname, method)
    /\ routes' = SelectSeq(routes,
                           LAMBDA r : ~regexExec(r.regex, pathname).ok)
    /\ matchCalls' = matchCalls + 1
    /\ pc' = "matched"
    /\ UNCHANGED <<contract, impl, options, context, exit, stream, response,
                   handlerCalls, formatterCalls, argument, result>>

\* matchRoute(routes, pathname, method): the table is read, never written.
MatchRoute(pathname, method) ==
    /\ pc = "idle"
    /\ matchCalls < MaxMatchCalls
    /\ request' = [pathname |-> pathname, method |-> method]
    /\ match' = matchRoute(routes, pathname, method)
    /\ matchCalls' = matchCalls + 1
    /\ pc' = "matched"
    /\ UNCHANGED <<config, context, exit, stream, response, handlerCalls,
                   formatterCalls, argument, result>>

\* The caller has looked at the result.
Return ==
    /\ pc = "matched"
    /\ pc' = "idle"
    /\ request' = None
    /\ match' = None
    /\ UNCHANGED <<config, aside, context, exit, stream, response, handlerCalls,
                   formatterCalls>>

RouterNext ==
    \/ pc = "idle" /\ \E pathname \in RouterPaths, method \in RouterMethods :
          MatchRoute(pathname, method)
    \/ Return

RouterSpec == RouterInit /\ [][RouterNext]_vars

\* ----------------------------------------------------------- router claims

\* The characters C11 is about.
MetaChars == {".", "*", "+", "(", ")"}

\* Position i of pattern p holds one of them, in static text that no
\* placeholder precedes (so that it is position i of the path too).
StaticMetaAt(p, i) ==
    /\ p[i] \in MetaChars
    /\ \A j \in 1..i : p[j] # "{"

\* C11: a pattern whose static text holds ".", "*", "+", "(" or ")" compiles
\* to a matcher that accepts the path identical to the pattern and rejects
\* every path with a different character at that position.
C11_MetacharactersAreLiteral ==
    pc = "matched" =>
      \A k \in 1..Len(routes) :
        LET p == routes[k].pattern
            accepted == regexExec(routes[k].regex, request.pathname).ok
        IN \A i \in 1..Len(p) :
             StaticMetaAt(p, i) =>
               /\ (request.pathname = p => accepted)
               /\ (i <= Len(request.pathname) /\ request.pathname[i] # p[i]
                     => ~accepted)

\* s.split("/")
RECURSIVE SplitFrom(_, _, _)
SplitFrom(s, i, current) ==
    IF i > Len(s) THEN <<current>>
    ELSE IF s[i] = "/" THEN <<current>> \o SplitFrom(s, i + 1, <<>>)
    ELSE SplitFrom(s, i + 1, Append(current, s[i]))

SegmentsOf(s) == SplitFrom(s, 1, <<>>)

\* The segment is one {name} placeholder.
IsPlaceholder(segment) ==
    /\ Len(segment) >= 3
    /\ segment[1] = "{"
    /\ segment[Len(segment)] = "}"

PlaceholderName(segment) == SubSeq(segment, 2, Len(segment) - 1)

\* C12: on a route match, params maps each placeholder name to exactly the
\* raw substring of the path at the placeholder's position; nothing is
\* percent-decoded.
C12_ParamsAreRawSubstrings ==
    (pc = "matched" /\ isRouteMatch(match)) =>
      LET patternSegments == SegmentsOf(match.route.pattern)
          pathSegments == SegmentsOf(request.pathname)
          placeholders == { n \in 1..Len(patternSegments) :
                              IsPlaceholder(patternSegments[n]) }
      IN /\ DOMAIN match.params =
              { PlaceholderName(patternSegments[n]) : n \in placeholders }
         /\ \A n \in placeholders :
              /\ n <= Len(pathSegments)
              /\ match.params[PlaceholderName(patternSegments[n])] = pathSegments[n]

\* A match whose captured parameter holds a percent-escape.
C12_Witness ==
    /\ pc = "matched"
    /\ isRouteMatch(match)
    /\ <<"i">> \in DOMAIN match.params
    /\ match.params[<<"i">>] = <<"%", "2", "0">>
    /\ PercentDecoded(match.params[<<"i">>]) = <<" ">>

\* matchRoute answered "method not allowed".
MethodNotAllowed ==
    /\ pc = "matched"
    /\ ~isRouteMatch(match)
    /\ match.hasAllowed

\* The first route, in declaration order, whose pattern accepts the path.
FirstAcceptingRoute ==
    CHOOSE k \in AcceptingRoutes : \A j \in AcceptingRoutes : k <= j

\* The methods a contract entry declares, as a set.
DeclaredMethods(entry) ==
    { entry.methods[n].method : n \in 1..Len(entry.methods) }

\* C13 as stated: on a method-not-allowed result allowedMethods is the sorted
\* list of exactly the methods the matched route implements.
C13_AllowedMethodsSorted ==
    MethodNotAllowed =>
      LET allowed == match.allowedMethods
      IN /\ { allowed[n] : n \in 1..Len(allowed) }
              = DeclaredMethods(contract[FirstAcceptingRoute])
         /\ Len(allowed) = Cardinality(DeclaredMethods(contract[FirstAcceptingRoute]))
         /\ \A n \in 1..(Len(allowed) - 1) :
              MethodRank(allowed[n]) <= MethodRank(allowed[n + 1])

\* C13 amended: on a method-not-allowed result allowedMethods is the list of
\* exactly the methods the matched route declares, in declaration order.
C13_AllowedMethodsInDeclarationOrder ==
    MethodNotAllowed =>
      LET entry == contract[FirstAcceptingRoute]
      IN match.allowedMethods =
           [n \in 1..Len(entry.methods) |-> entry.methods[n].method]

\* A method-not-allowed result for a route declared with get, put, delete.
C13_Witness ==
    /\ MethodNotAllowed
    /\ match.allowedMethods = <<"get", "put", "delete">>
    /\ toLowerCase(request.method) \notin {"get", "put", "delete"}

\* The spellings of one method name that differ in letter case only.
CaseClasses ==
    { {"GET", "get"}, {"POST", "Post", "post"}, {"PUT", "pUt", "put"},
      {"DELETE", "delete"}, {"PATCH", "patch"} }

LowercaseMethods == {"get", "post", "put", "delete", "patch"}

SameLetters(m1, m2) == \E class \in CaseClasses : m1 \in class /\ m2 \in class

\* C14: matchRoute returns for a method what it returns for the method's
\* lowercase form, and a route match carries the lowercase method.
C14_MethodCaseInsensitive ==
    pc = "matched" =>
      \A lower \in LowercaseMethods :
        SameLetters(request.method, lower) =>
          /\ match = matchRoute(routes, request.pathname, lower)
          /\ isRouteMatch(match) => match.method = lower

\* A route match for a method spelled in mixed case.
C14_Witness ==
    /\ pc = "matched"
    /\ request.method = "pUt"
    /\ isRouteMatch(match)
    /\ match.method = "put"

\* ------------------------------------------------ claims on input decoding

\* The route decodes its path parameters: decodePath is absent or true.
DecodesPath(definition) ==
    "decodePath" \notin DOMAIN definition \/ definition.decodePath

\* The handler of the matched route has been invoked with its context.
HandlerInvoked ==
    /\ pc \in {"exiting", "resolved", "rejected"}
    /\ handlerCalls = 1

\* The declared path parameters the matcher captured.
CapturedPathKeys ==
    keySet(match.definition.path) \cap DOMAIN match.params

\* C15: with decodePath at its default the handler receives each declared
\* path parameter percent-decoded, with decodePath: false it receives the raw
\* captured substring.
C15_PathParamsDecodedByDefault ==
    HandlerInvoked =>
      \A key \in CapturedPathKeys :
        (DecodesPath(match.definition) => WellEncoded(match.params[key])) =>
          /\ key \in DOMAIN context.path
          /\ context.path[key] =
               Decoded(IF DecodesPath(match.definition)
                       THEN PercentDecoded(match.params[key])
                       ELSE match.params[key])

\* A path parameter of the matched route holds a malformed percent-escape,
\* and nothing else of the request fails: the schemas accept the inputs.
MalformedPathParam ==
    /\ Settled
    /\ isRouteMatch(match)
    /\ methodImpl(impl, match)
    /\ \E key \in CapturedPathKeys : ~WellEncoded(match.params[key])
    /\ request.pathOk
    /\ request.query # "bad"
    /\ request.headers # "bad"
    /\ request.body \in {"none", "ok"}

\* C16: a malformed percent-escape in a path parameter is answered 400 with a
\* ValidationError on invalid URL encoding when the route decodes its path
\* (here under the default formatter), and reaches the handler as the raw
\* parameter when decodePath is false.
C16_MalformedEscapeRejected ==
    MalformedPathParam =>
      IF DecodesPath(match.definition)
      THEN options = "default" =>
             /\ handlerCalls = 0
             /\ pc = "resolved"
             /\ response.status = 400
             /\ response.body.json.error = "ValidationError"
      ELSE /\ handlerCalls = 1
           /\ \A key \in CapturedPathKeys :
                context.path[key] = Decoded(match.params[key])
           /\ (pc = "resolved" /\ exit.tag = "Success") => response = exit.value

\* C18: a declared query parameter that is absent from the URL and whose
\* schema declares a decoding default reaches the handler with that default.
C18_AbsentQueryGetsDefault ==
    (HandlerInvoked /\ request.query = "absent") =>
      \A key \in keySet(match.definition.query) :
        DecodingDefault(key).has =>
          /\ key \in DOMAIN context.query
          /\ context.query[key] = DecodingDefault(key).value

\* The request went to a registered handler of a route with a non-stream body
\* schema, and its body is text that JSON.parse rejects.
InvalidJsonBody ==
    /\ Settled
    /\ isRouteMatch(match)
    /\ methodImpl(impl, match)
    /\ match.definition.body = "json"
    /\ request.body = "badjson"

\* The message reported for well-formed JSON that fails the body schema.
WrongShapeMessage ==
    parseBody(match.definition, [request EXCEPT !.body = "wrongshape"]).error.message

\* The path, query and header inputs of the request decode.
OtherInputsDecode ==
    /\ parsePath(match.params, match.definition, request).tag = "Success"
    /\ parseQuery(match.definition, request).tag = "Success"
    /\ parseHeaders(match.definition, request).tag = "Success"

C19_BareValueUsesDefaultStatus ==
    [][\A lock \in BOOLEAN :
         Handle([kind |-> "bare"], lock) =>
           /\ exit'.tag = "Success"
           /\ exit'.value.status = getDefaultStatus(match.definition.success)
           /\ exit'.value.headers = JsonHeaders
           /\ exit'.value.body = jsonStringify(HandlerValue)]_vars

\* C20: the typed response of ctx.respond carries the status the handler
\* chose, and the success descriptor's default status when it chose none; the
\* response sent has that status.
C20_RespondCarriesChosenStatus ==
    [][\A opts \in RespondOptions, lock \in BOOLEAN :
         Handle([kind |-> "respond", options |-> opts], lock) =>
           /\ exit'.tag = "Success"
           /\ exit'.value.status =
                IF opts.hasStatus THEN opts.status
                ELSE getDefaultStatus(match.definition.success)]_vars

\* A response sent with status 201 on a route whose default status is 200:
\* the handler chose it with ctx.respond.
C20_Witness ==
    /\ pc = "resolved"
    /\ handlerCalls = 1
    /\ exit.tag = "Success"
    /\ response = exit.value
    /\ response.status = 201
    /\ getDefaultStatus(match.definition.success) = 200

\* ------------------------------------------------ the helpers on their own

\* response.union is given at most this many members.
MaxUnionLen == 2

SeqsUpTo(S, n) == UNION { [1..k -> S] : k \in 0..n }

\* The options response(body, options) is called with: none, or a status.
ResponseOptions ==
    { [hasStatus |-> FALSE, status |-> 0] }
      \cup [hasStatus : {TRUE}, status : {200, 201, 404}]

\* How a descriptor is written: response(body, options), or response.union
\* of such calls.
SingleExpressions == [kind : {"single"}, body : {"json", "stream"},
                      options : ResponseOptions]

DescriptorExpressions ==
    SingleExpressions
      \cup { [kind |-> "union", members |-> m] :
               m \in SeqsUpTo(SingleExpressions, MaxUnionLen) }

\* The descriptor an expression evaluates to.
descriptorOf(expression) ==
    IF expression.kind = "single"
    THEN responseFn(expression.body, expression.options)
    ELSE createUnion([k \in 1..Len(expression.members) |->
                        responseFn(expression.members[k].body,
                                   expression.members[k].options)])

\* The typed responses serializeTypedResponse is called with: no body, a
\* stream, an object or an empty string; headers the handler gave, some with
\* an undefined value.
TypedBodies ==
    { None, [kind |-> "stream"], HandlerValue, [kind |-> "string", text |-> <<>>] }

TypedHeaderNames == { {"Content-Type", "X-Id"}, {"content-type", "X-Id"} }

TypedHeaders ==
    UNION { UNION { [names -> { [defined |-> TRUE, value |-> <<"text/plain">>],
                                [defined |-> FALSE, value |-> <<>>] }] :
                    names \in SUBSET all } :
            all \in TypedHeaderNames }

TypedResponses ==
    { createTypedResponse(body, status, headers) :
        body \in TypedBodies, status \in {200, 201}, headers \in TypedHeaders }

\* No handler is built: the helpers are called as the tests call them.
HelperInit ==
    /\ contract = <<>>
    /\ impl = {}
    /\ options = "default"
    /\ routes = <<>>
    /\ pc = "idle"
    /\ request = None
    /\ match = None
    /\ context = None
    /\ exit = NoExit
    /\ stream = "null"
    /\ response = None
    /\ handlerCalls = 0
    /\ formatterCalls = <<>>
    /\ argument = None
    /\ result = None
    /\ matchCalls = 0

\* getDefaultStatus(schema)
GetDefaultStatus(expression) ==
    /\ pc = "idle"
    /\ argument' = [fn |-> "getDefaultStatus", expression |-> expression]
    /\ result' = getDefaultStatus(descriptorOf(expression))
    /\ pc' = "returned"
    /\ UNCHANGED <<config, request, match, context, exit, stream, response,
                   handlerCalls, formatterCalls, matchCalls>>

\* serializeTypedResponse(typed)
SerializeTypedResponse(typed) ==
    /\ pc = "idle"
    /\ argument' = [fn |-> "serializeTypedResponse", typed |-> typed]
    /\ result' = serializeTypedResponse(typed)
    /\ pc' = "returned"
    /\ UNCHANGED <<config, request, match, context, exit, stream, response,
                   handlerCalls, formatterCalls, matchCalls>>

\* The caller has looked at the result.
HelperReturn ==
    /\ pc = "returned"
    /\ pc' = "idle"
    /\ argument' = None
    /\ result' = None
    /\ UNCHANGED <<config, request, match, context, exit, stream, response,
                   handlerCalls, formatterCalls, matchCalls>>

HelperNext ==
    \/ pc = "idle" /\ \E expression \in DescriptorExpressions :
          GetDefaultStatus(expression)
    \/ pc = "idle" /\ \E typed \in TypedResponses : SerializeTypedResponse(typed)
    \/ HelperReturn

HelperSpec == HelperInit /\ [][HelperNext]_vars

\* ------------------------------------------------------------ helper claims

\* The status an expression of a single descriptor gives it.
StatusWritten(single) ==
    IF single.options.hasStatus THEN single.options.status ELSE 200

\* getDefaultStatus has returned for the descriptor of argument.expression.
DefaultStatusReturned ==
    pc = "returned" /\ argument.fn = "getDefaultStatus"

\* C21: the default status of a single descriptor is its own status (200
\* when it was built without one), that of a union is the status of its
\* first member, and that of an empty union is 200.
C21_DefaultStatus ==
    DefaultStatusReturned =>
        LET e == argument.expression
        IN result = IF e.kind = "single" THEN StatusWritten(e)
                    ELSE IF Len(e.members) = 0 THEN 200
                    ELSE StatusWritten(e.members[1])

\* A union of a 201 member and a later member built without a status has
\* the default status 201.
C21_Witness ==
    /\ DefaultStatusReturned
    /\ argument.expression.kind = "union"
    /\ Len(argument.expression.members) = 2
    /\ StatusWritten(argument.expression.members[1]) = 201
    /\ ~argument.expression.members[2].options.hasStatus
    /\ result = 201

\* serializeTypedResponse has returned for argument.typed.
Serialized ==
    pc = "returned" /\ argument.fn = "serializeTypedResponse"

\* The value the handler's headers give Content-Type, under either spelling
\* of the name; an undefined value sets nothing.
ContentTypeGiven(headers) ==
    { headers[k].value :
        k \in { n \in DOMAIN headers \cap {"Content-Type", "content-type"} :
                  headers[n].defined } }

\* C23: a stream body is sent as it is with Content-Type
\* application/octet-stream, any other body that is not null or undefined is
\* sent as its JSON text with Content-Type application/json, and in both
\* cases a Content-Type the response headers already set is kept instead.
C23_ContentTypeByBody ==
    (Serialized /\ argument.typed.body # None) =>
      LET typed == argument.typed
          given == ContentTypeGiven(typed.headers)
      IN /\ "Content-Type" \in DOMAIN result.headers
         /\ result.headers["Content-Type"] =
              IF given # {} THEN CHOOSE v \in given : TRUE
              ELSE IF typed.body.kind = "stream"
              THEN <<"application/octet-stream">>
              ELSE <<"application/json">>
         /\ result.body = IF typed.body.kind = "stream" THEN typed.body
                          ELSE jsonStringify(typed.body)
         /\ result.status = typed.status

\* A stream was serialized with headers that name Content-Type with an
\* undefined value and X-Id with a value: the default content type was set.
C23_Witness ==
    /\ Serialized
    /\ argument.typed.body.kind = "stream"
    /\ DOMAIN argument.typed.headers = {"content-type", "X-Id"}
    /\ ~argument.typed.headers["content-type"].defined
    /\ argument.typed.headers["X-Id"].defined
    /\ result.headers["Content-Type"] = <<"application/octet-stream">>
    /\ "X-Id" \in DOMAIN result.headers

Unimplemented ==
    /\ pc # "idle"
    /\ match.matched
    /\ <<match.route.pattern, match.method>> \notin impl

\* C22 as stated: a request for a declared route without a handler is
\* answered with status 404 and no handler runs.
C22_Unimplemented404 ==
    Unimplemented =>
      /\ pc = "resolved"
      /\ response.status = 404
      /\ handlerCalls = 0

\* C22 amended: a request for a declared route without a handler is answered
\* from the formatter's answer to a NotFoundError "Handler not found" (status
\* 404 with the default formatter), and no handler runs.
C22_UnimplementedIsNotFound ==
    Unimplemented =>
      /\ pc = "resolved"
      /\ formatterCalls = <<NotFoundError(<<"Handler not found">>)>>
      /\ response = errorResponseOf(formatError(options, formatterCalls[1]),
                                    JsonHeaders)
      /\ options = "default" => response.status = 404
      /\ handlerCalls = 0
      /\ context = None

\* GET /u of the contract whose implementation lacks that handler was
\* answered 404 by the default formatter.
C22_Witness ==
    /\ Unimplemented
    /\ pc = "resolved"
    /\ options = "default"
    /\ response.status = 404
    /\ response.body.json.message = <<"Handler not found">>
    /\ handlerCalls = 0

\* The request was answered from what formatError returned.
AnsweredByFormatter ==
    pc = "resolved" /\ formatterCalls # <<>>

\* C24: when the formatter returns a Response object, that Response is the
\* answer, unmodified: its status, headers and body text.
C24_FormatterResponsePassedThrough ==
    (AnsweredByFormatter /\ options = "customResponse") =>
      /\ response.status = FormatterResponse.status
      /\ response.headers = FormatterResponse.headers
      /\ response.body = [text |-> FormatterResponse.text]

\* The inputs of the current request do not decode against the schemas of
\* the definition it matched.
InputsUndecodable ==
    /\ pc # "idle"
    /\ match.matched
    /\ decodeInputs(match, request).tag = "Failure"

\* C26: decoding comes before the handler lookup, so a request whose inputs
\* do not decode is answered as a validation error whether or not the
\* implementation has a handler for the route.
C26_DecodingBeforeHandlerLookup ==
    (InputsUndecodable /\ pc = "resolved") =>
      /\ formatterCalls = <<decodeInputs(match, request).error>>
      /\ formatterCalls[1].cls = "ValidationError"

\* The channels in the order of their priority.
Channels == <<"path", "query", "headers", "body">>

\* What parsing one channel of the current request gives.
channelResult(channel) ==
    IF channel = "path" THEN parsePath(match.params, match.definition, request)
    ELSE IF channel = "query" THEN parseQuery(match.definition, request)
    ELSE IF channel = "headers" THEN parseHeaders(match.definition, request)
    ELSE parseBody(match.definition, request)

\* The positions in Channels of the channels that fail to decode.
FailingChannels ==
    { n \in DOMAIN Channels : channelResult(Channels[n]).tag = "Failure" }

\* Decoding of the current request has run and failed; the request is settled.
DecodingFailed ==
    /\ pc = "resolved"
    /\ match.matched
    /\ exit.tag = "Failure"
    /\ handlerCalls = 0

MatchingMembers ==
    { k \in 1..Len(DeclaredFailures) :
        InstanceOf(exit.error, DeclaredFailures[k].body) }

\* C28: the failure members are tried in declaration order; the status of
\* the answer is that of the earliest member the error is an instance of,
\* also when the error is an instance of a later member, and the formatter
\* has no part in the answer.
C28_EarliestMatchingMemberDecides ==
    (HandlerFailed /\ MatchingMembers # {}) =>
      LET first == CHOOSE k \in MatchingMembers : \A j \in MatchingMembers : k <= j
      IN /\ response.status = DeclaredFailures[first].status
         /\ formatterCalls = <<>>

\* An error of a subclass of the first member's class, declared itself as the
\* second member with status 409, was answered with the first member's 404.
C28_Witness ==
    /\ HandlerFailed
    /\ MatchingMembers = {1, 2}
    /\ DeclaredFailures[1].status = 404
    /\ DeclaredFailures[2].status = 409
    /\ DeclaredFailures[2].body = exit.error.cls
    /\ response.status = 404
    /\ formatterCalls = <<>>

\* The accepting routes that define the request's method.
DefiningRoutes ==
    { k \in AcceptingRoutes :
        definitionOf(routes[k].definitions, toLowerCase(request.method)).found }

\* The request was answered as method-not-allowed.
AnsweredMethodNotAllowed ==
    /\ pc = "resolved"
    /\ formatterCalls # <<>>
    /\ formatterCalls[1].cls = "MethodNotAllowedError"

\* C29 as stated: a request is dispatched whenever some route accepts its
\* path and defines its method, and method-not-allowed is answered only when
\* no accepting route defines the method.
C29_AnyDefiningRouteDispatches ==
    pc # "idle" =>
      /\ DefiningRoutes # {} => match.matched
      /\ AnsweredMethodNotAllowed => DefiningRoutes = {}

\* C29 amended: a request is dispatched exactly when the first route that
\* accepts its path defines its method, and then to that route;
\* method-not-allowed (status 405 with the default formatter) is answered
\* exactly when some route accepts the path and the first that does lacks the
\* method.
C29_FirstAcceptingRouteDispatches ==
    pc # "idle" =>
      LET accepting == AcceptingRoutes
          first == CHOOSE k \in accepting : \A j \in accepting : k <= j
          firstDefines ==
              /\ accepting # {}
              /\ definitionOf(routes[first].definitions,
                              toLowerCase(request.method)).found
          firstLacks == accepting # {} /\ ~firstDefines
      IN /\ match.matched <=> firstDefines
         /\ match.matched => match.route = routes[first]
         /\ pc = "resolved" =>
              /\ AnsweredMethodNotAllowed <=> firstLacks
              /\ options = "default" => (response.status = 405 <=> firstLacks)

\* DELETE /u/m was answered 405 although the second route accepting the path
\* defines delete.
C29_Witness ==
    /\ AnsweredMethodNotAllowed
    /\ DefiningRoutes # {}
    /\ FirstAcceptingRoute \notin DefiningRoutes
    /\ options = "default"
    /\ response.status = 405

\* The handler of the current request succeeded and the request was answered.
AnsweredSuccess ==
    /\ pc = "resolved"
    /\ handlerCalls = 1
    /\ exit.tag = "Success"

\* The statuses the success descriptor of the matched route declares.
DeclaredSuccessStatuses ==
    { getStatuses(match.definition.success)[k] :
        k \in 1..Len(getStatuses(match.definition.success)) }

\* C30: the status of every successful response is one the success
\* descriptor of the matched route declares, whatever the handler returns.
C30_SuccessStatusDeclared ==
    AnsweredSuccess => response.status \in DeclaredSuccessStatuses

====
